---- MODULE Spec2Model ----
(***************************************************************************)
(* A model of the plugin tests of the pytorch-lightning fragment:          *)
(* tests/plugins/test_rpc_sequential_plugin.py and                         *)
(* tests/plugins/test_rpc_plugin.py: the fixture models, the plugin        *)
(* subclass, the callback and the Trainer configurations they run.         *)
(* The Trainer and the RPC plugins are not part of the fragment; their     *)
(* steps follow the specification document. The deprecated roc wrapper of  *)
(* metrics/functional/roc.py has an empty body: all it does is done by a   *)
(* decorator outside the fragment, so it has no state or step here.        *)
(***************************************************************************)
EXTENDS Integers, Sequences, FiniteSets, TLC

VARIABLES
    \* ---- one test run: a Trainer configuration run by every process ----
    cfg,                     \* the Trainer(...) arguments of the test
    pc,                      \* rank -> position of the process in the test
    error,                   \* rank -> the exception that left fit / test
    training_type_plugin,    \* rank -> trainer.training_type_plugin
    rpc_initialized,         \* rank -> the plugin's RPC connection is up
    fit_calls,               \* rank -> number of times trainer.fit was entered
    current_epoch,           \* rank -> epochs completed
    batch_idx,               \* rank -> batches done in the running loop
    grad,                    \* rank -> (parameter -> p.grad) of self.parameters()
    train_step_calls,        \* rank -> calls of training_step
    val_step_calls,          \* rank -> calls of validation_step
    test_step_calls,         \* rank -> calls of test_step
    pbar_added_metrics,      \* rank -> metrics logged with prog_bar=True
    rpc_save_model_count,    \* rank -> CustomRPCPlugin.rpc_save_model_count
    verdict                  \* rank -> outcome of the test function

vars == <<cfg, pc, error, training_type_plugin, rpc_initialized, fit_calls,
              current_epoch, batch_idx, grad, train_step_calls, val_step_calls,
              test_step_calls, pbar_added_metrics, rpc_save_model_count, verdict>>

(***************************************************************************)
(* Bounds of the model.                                                    *)
(***************************************************************************)
\* calls of rpc_save_model followed on one process
MaxSaveCalls == 3
\* largest entry of a balance list tried
MaxBalance == 2

(***************************************************************************)
(* Program constants of the test files.                                    *)
(***************************************************************************)
max_epochs == 2
limit_train_batches == 2
limit_val_batches == 2
limit_test_batches == 2
gpus == 2

Ranks == 0 .. (gpus - 1)

(***************************************************************************)
(* Outcomes of a call: a returned value or a raised exception.             *)
(***************************************************************************)
Returned(v) == [kind |-> "return", type |-> "None", text |-> v, sum |-> 0, length |-> 0]

Raised(t, m, s, n) == [kind |-> "raise", type |-> t, text |-> m, sum |-> s, length |-> n]

NoError == Returned("None")

(***************************************************************************)
(* The fixtures and configurations of the plugin tests.                    *)
(***************************************************************************)
\* a fixture with one layer more
sequential_module_four_layers == <<"Linear", "ReLU", "ReLU", "Linear">>

\* SequentialModelRPCManual.__init__: nn.Sequential(Linear(32, 32), ReLU(), Linear(32, 2))
sequential_module == <<"Linear", "ReLU", "Linear">>

\* automatic_optimization: False in the manual fixture, True in the automatic one
automatic_optimization(model) == model # "SequentialModelRPCManual"

RECURSIVE SumSeq(_)
SumSeq(s) == IF s = <<>> THEN 0 ELSE s[1] + SumSeq(Tail(s))

\* every balance list over the two devices, entries positive
Balances == [1 .. gpus -> 1 .. MaxBalance]

\* the keyword arguments of one Trainer(...) call and what the test does around fit
TrainerArgs(test, model, precision, plugins, balance, backend, callbacks, raises, exit_call, pbar_assert, count_assert) ==
    [test |-> test, model |-> model, precision |-> precision, plugins |-> plugins,
     balance |-> balance, distributed_backend |-> backend, callbacks |-> callbacks,
     raises |-> raises, exit_call |-> exit_call, pbar_assert |-> pbar_assert,
     count_assert |-> count_assert]

AmpMessage == "RPCSequentialPlugin is currently not supported in Automatic Mixed Precision"

BalanceMessage == "The provided balance sum does not match your Sequential length"

test_rpc_sequential_plugin_manual ==
    TrainerArgs("test_rpc_sequential_plugin_manual", "SequentialModelRPCManual", 32,
                <<"RPCSequentialPlugin">>, <<2, 1>>, "ddp", {},
                NoError, TRUE, TRUE, FALSE)

test_rpc_sequential_plugin_manual_amp ==
    TrainerArgs("test_rpc_sequential_plugin_manual_amp", "SequentialModelRPCManual", 16,
                <<"RPCSequentialPlugin">>, <<2, 1>>, "ddp", {},
                Raised("MisconfigurationException", AmpMessage, 0, 0), FALSE, FALSE, FALSE)

test_rpc_sequential_plugin_automatic ==
    TrainerArgs("test_rpc_sequential_plugin_automatic", "SequentialModelRPCAutomatic", 32,
                <<"RPCSequentialPlugin">>, <<2, 1>>, "ddp", {},
                NoError, TRUE, TRUE, FALSE)

test_rpc_sequential_plugin_with_wrong_balance ==
    TrainerArgs("test_rpc_sequential_plugin_with_wrong_balance", "SequentialModelRPCAutomatic", 32,
                <<"RPCSequentialPlugin">>, <<2, 2>>, "ddp", {},
                Raised("MisconfigurationException", BalanceMessage, 4, 3), TRUE, FALSE, FALSE)

\* parametrized over ("ddp_cpu", None, 2), ("ddp", 2, 0), ("ddp_spawn", 2, 0)
test_rpc_choice(ddp_backend) ==
    TrainerArgs("test_rpc_choice", "BoringModel", 32,
                <<"RPCPlugin">>, <<>>, ddp_backend, {"CB"},
                Raised("RuntimeError", "finished plugin check", 0, 0), FALSE, FALSE, FALSE)

test_rpc_function_calls_ddp ==
    TrainerArgs("test_rpc_function_calls_ddp", "BoringModel", 32,
                <<"CustomRPCPlugin">>, <<>>, "ddp", {},
                NoError, FALSE, FALSE, TRUE)

Backends == {"ddp_cpu", "ddp", "ddp_spawn"}

SequentialTests == {test_rpc_sequential_plugin_manual, test_rpc_sequential_plugin_manual_amp,
                    test_rpc_sequential_plugin_automatic,
                    test_rpc_sequential_plugin_with_wrong_balance}

\* the tests as written, the sequential tests with every balance list, and the
\* plugin-choice test with and without the plugin in the plugins list
Configs ==
    SequentialTests
    \cup {[t EXCEPT !.balance = b] : t \in SequentialTests, b \in Balances}
    \cup {test_rpc_choice(b) : b \in Backends}
    \cup {[test_rpc_choice(b) EXCEPT !.plugins = <<>>] : b \in Backends}
    \cup {test_rpc_function_calls_ddp}

\* class CustomRPCPlugin(RPCPlugin); RPCSequentialPlugin is the RPC plugin for pipelines
isinstance_RPCPlugin(plugin) == plugin \in {"RPCPlugin", "CustomRPCPlugin", "RPCSequentialPlugin"}

\* the Trainer takes the training-type plugin passed in plugins, else the backend's own
select_training_type_plugin(c) ==
    IF Len(c.plugins) > 0 THEN c.plugins[1]
    ELSE IF c.distributed_backend = "ddp" THEN "DDPPlugin" ELSE "DDPSpawnPlugin"

\* trainer.accelerator.rpc_enabled
rpc_enabled(plugin) == isinstance_RPCPlugin(plugin)

\* a validation that lets mixed precision through
configuration_error_no_amp(c, plugin) ==
    IF plugin # "RPCSequentialPlugin" THEN NoError
    ELSE IF SumSeq(c.balance) # Len(sequential_module)
        THEN Raised("MisconfigurationException", BalanceMessage,
                    SumSeq(c.balance), Len(sequential_module))
    ELSE NoError

\* the pre-flight validation of the sequential plugin
configuration_error(c, plugin) ==
    IF plugin # "RPCSequentialPlugin" THEN NoError
    ELSE IF c.precision = 16
        THEN Raised("MisconfigurationException", AmpMessage, 0, 0)
    ELSE IF SumSeq(c.balance) # Len(sequential_module)
        THEN Raised("MisconfigurationException", BalanceMessage,
                    SumSeq(c.balance), Len(sequential_module))
    ELSE NoError

\* a CB.on_fit_start that returns without raising
CB_on_fit_start_silent(plugin) == NoError

\* CB.on_fit_start: assert isinstance(...); raise RuntimeError('finished plugin check')
CB_on_fit_start(plugin) ==
    IF ~isinstance_RPCPlugin(plugin) THEN Raised("AssertionError", "", 0, 0)
    ELSE Raised("RuntimeError", "finished plugin check", 0, 0)

\* loss(self, prediction): one argument besides self
loss(nargs) ==
    IF nargs = 1 THEN Returned("loss")
    ELSE Raised("TypeError", "loss() takes 2 positional arguments but 3 were given", 0, 0)

\* a validation_step that calls loss the way test_step does
validation_step_two_args(model) ==
    IF model = "BoringModel" THEN Returned("loss") ELSE loss(2)

\* validation_step: self.loss(output)
validation_step(model) ==
    IF model = "BoringModel" THEN Returned("loss") ELSE loss(1)

\* test_step: self.loss(batch, output)
test_step(model) ==
    IF model = "BoringModel" THEN Returned("loss") ELSE loss(2)

(***************************************************************************)
(* Parameters and gradients of the fixture model.                          *)
(***************************************************************************)
\* self.parameters(): weight and bias of each Linear layer of sequential_module
parameters(c) ==
    IF c.model = "BoringModel" THEN {}
    ELSE {<<i, n>> : i \in {j \in DOMAIN sequential_module : sequential_module[j] = "Linear"},
                     n \in {"weight", "bias"}}

Abs(x) == IF x < 0 THEN -x ELSE x

RECURSIVE SumAbs(_, _)
SumAbs(g, ps) ==
    IF ps = {} THEN 0
    ELSE LET p == CHOOSE q \in ps : TRUE IN Abs(g[p]) + SumAbs(g, ps \ {p})

\* torch.stack([torch.abs(p.grad).sum() for p in self.parameters()]).sum()
total_abs_grad(g) == SumAbs(g, DOMAIN g)

\* Assumed of torch's autograd, not stated by the fixture: the sign of each
\* parameter's gradient after one backward pass of the mse loss against ones on
\* random data, at least one of them not zero.
Gradients(ps) == {g \in [ps -> {-1, 0, 1}] : total_abs_grad(g) > 0}

\* self.manual_backward(loss, opt): gradients accumulate into p.grad
manual_backward(old, g) == [p \in DOMAIN old |-> old[p] + g[p]]

\* opt.step(): updates the weights, leaves p.grad as it is
opt_step(g) == g

\* opt.zero_grad(): every p.grad becomes zero
zero_grad(g) == [p \in DOMAIN g |-> 0]

\* CustomRPCPlugin.rpc_save_model: self.rpc_save_model_count += 1
rpc_save_model(count) == count + 1

\* RPCPlugin.exit_rpc_process: shuts the RPC connection of the process down
exit_rpc_process(initialized) == FALSE

\* if trainer.accelerator.rpc_enabled: ...training_type_plugin.exit_rpc_process()
teardown_calls_exit(c, plugin) == c.exit_call /\ rpc_enabled(plugin)

\* pytest.raises(Exception, match=...) around fit, or fit called bare
expected_raised(c, e) == e = c.raises

\* the lines of the test function after trainer.fit
test_outcome(c, e, is_initialized, rank, pbar, count) ==
    IF ~expected_raised(c, e) THEN "failed"
    ELSE IF c.pbar_assert /\ is_initialized /\ rank = 0 /\ ~(pbar > 0) THEN "failed"
    ELSE IF c.count_assert /\ count # max_epochs THEN "failed"
    ELSE "passed"

(***************************************************************************)
(* The state machine of one test run, every rank running the test.         *)
(***************************************************************************)
FitInit ==
    /\ cfg \in Configs
    /\ pc = [r \in Ranks |-> "start"]
    /\ error = [r \in Ranks |-> NoError]
    /\ training_type_plugin = [r \in Ranks |-> "None"]
    /\ rpc_initialized = [r \in Ranks |-> FALSE]
    /\ fit_calls = [r \in Ranks |-> 0]
    /\ current_epoch = [r \in Ranks |-> 0]
    /\ batch_idx = [r \in Ranks |-> 0]
    /\ grad = [r \in Ranks |-> <<>>]
    /\ train_step_calls = [r \in Ranks |-> 0]
    /\ val_step_calls = [r \in Ranks |-> 0]
    /\ test_step_calls = [r \in Ranks |-> 0]
    /\ pbar_added_metrics = [r \in Ranks |-> 0]
    /\ rpc_save_model_count = [r \in Ranks |-> 0]
    /\ verdict = [r \in Ranks |-> "running"]

\* trainer.fit(model) is entered: the training-type plugin is chosen
TrainerFit(r) ==
    /\ pc[r] = "start"
    /\ fit_calls' = [fit_calls EXCEPT ![r] = @ + 1]
    /\ training_type_plugin' = [training_type_plugin EXCEPT ![r] = select_training_type_plugin(cfg)]
    /\ pc' = [pc EXCEPT ![r] = "on_fit_start"]
    /\ UNCHANGED <<cfg, error, rpc_initialized, current_epoch, batch_idx, grad,
                   train_step_calls, val_step_calls, test_step_calls, pbar_added_metrics,
                   rpc_save_model_count, verdict>>

\* the on_fit_start hook of every callback; what it raises leaves fit
OnFitStart(r) ==
    /\ pc[r] = "on_fit_start"
    /\ LET e == IF "CB" \in cfg.callbacks THEN CB_on_fit_start(training_type_plugin[r])
                ELSE NoError
       IN  IF e.kind = "raise"
           THEN /\ error' = [error EXCEPT ![r] = e]
                /\ pc' = [pc EXCEPT ![r] = "after_fit"]
           ELSE /\ pc' = [pc EXCEPT ![r] = "pre_dispatch"]
                /\ UNCHANGED error
    /\ UNCHANGED <<cfg, training_type_plugin, rpc_initialized, fit_calls,
                   current_epoch, batch_idx, grad, train_step_calls, val_step_calls,
                   test_step_calls, pbar_added_metrics, rpc_save_model_count, verdict>>

\* the plugin's pre-flight validation and the start of its RPC connection. When
\* the validation fails the connection may or may not have been started by then.
PreDispatch(r) ==
    /\ pc[r] = "pre_dispatch"
    /\ LET plugin == training_type_plugin[r]
           e == configuration_error(cfg, plugin)
       IN  IF e.kind = "raise"
           THEN /\ error' = [error EXCEPT ![r] = e]
                /\ pc' = [pc EXCEPT ![r] = "after_fit"]
                /\ \E up \in BOOLEAN :
                     /\ up => rpc_enabled(plugin)
                     /\ rpc_initialized' = [rpc_initialized EXCEPT ![r] = up]
                /\ UNCHANGED grad
           ELSE /\ pc' = [pc EXCEPT ![r] = "train"]
                /\ rpc_initialized' = [rpc_initialized EXCEPT ![r] = rpc_enabled(plugin)]
                /\ grad' = [grad EXCEPT ![r] = [p \in parameters(cfg) |-> 0]]
                /\ UNCHANGED error
    /\ UNCHANGED <<cfg, training_type_plugin, fit_calls, current_epoch, batch_idx,
                   train_step_calls, val_step_calls, test_step_calls, pbar_added_metrics,
                   rpc_save_model_count, verdict>>

\* the training loop moves to the next batch, or to validation after the last
NextBatch(r) ==
    IF batch_idx[r] + 1 < limit_train_batches
    THEN /\ batch_idx' = [batch_idx EXCEPT ![r] = @ + 1]
         /\ pc' = [pc EXCEPT ![r] = "train"]
    ELSE /\ batch_idx' = [batch_idx EXCEPT ![r] = 0]
         /\ pc' = [pc EXCEPT ![r] = "val"]

\* training_step under automatic optimization: loss(output), self.log, return loss
TrainingStep(r) ==
    /\ pc[r] = "train"
    /\ automatic_optimization(cfg.model)
    /\ train_step_calls' = [train_step_calls EXCEPT ![r] = @ + 1]
    /\ pbar_added_metrics' = [pbar_added_metrics EXCEPT ![r] =
                                 IF cfg.model = "BoringModel" THEN @ ELSE @ + 1]
    /\ NextBatch(r)
    /\ UNCHANGED <<cfg, error, training_type_plugin, rpc_initialized, fit_calls,
                   current_epoch, grad, val_step_calls, test_step_calls,
                   rpc_save_model_count, verdict>>

\* manual training_step, up to manual_backward(loss, opt)
ManualBackward(r) ==
    /\ pc[r] = "train"
    /\ ~automatic_optimization(cfg.model)
    /\ train_step_calls' = [train_step_calls EXCEPT ![r] = @ + 1]
    /\ pbar_added_metrics' = [pbar_added_metrics EXCEPT ![r] = @ + 1]
    /\ \E g \in Gradients(DOMAIN grad[r]) :
         grad' = [grad EXCEPT ![r] = manual_backward(@, g)]
    /\ pc' = [pc EXCEPT ![r] = "backward_done"]
    /\ UNCHANGED <<cfg, error, training_type_plugin, rpc_initialized, fit_calls,
                   current_epoch, batch_idx, val_step_calls, test_step_calls,
                   rpc_save_model_count, verdict>>

\* manual training_step: assert the gradient is not zero, opt.step(), opt.zero_grad()
StepZeroGrad(r) ==
    /\ pc[r] = "backward_done"
    /\ IF total_abs_grad(grad[r]) > 0
       THEN /\ grad' = [grad EXCEPT ![r] = zero_grad(opt_step(@))]
            /\ pc' = [pc EXCEPT ![r] = "zeroed"]
            /\ UNCHANGED error
       ELSE /\ error' = [error EXCEPT ![r] = Raised("AssertionError", "", 0, 0)]
            /\ pc' = [pc EXCEPT ![r] = "after_fit"]
            /\ UNCHANGED grad
    /\ UNCHANGED <<cfg, training_type_plugin, rpc_initialized, fit_calls,
                   current_epoch, batch_idx, train_step_calls, val_step_calls,
                   test_step_calls, pbar_added_metrics, rpc_save_model_count, verdict>>

\* manual training_step: assert the gradient is zero again
AssertZero(r) ==
    /\ pc[r] = "zeroed"
    /\ IF total_abs_grad(grad[r]) = 0
       THEN /\ NextBatch(r)
            /\ UNCHANGED error
       ELSE /\ error' = [error EXCEPT ![r] = Raised("AssertionError", "", 0, 0)]
            /\ pc' = [pc EXCEPT ![r] = "after_fit"]
            /\ UNCHANGED batch_idx
    /\ UNCHANGED <<cfg, training_type_plugin, rpc_initialized, fit_calls,
                   current_epoch, grad, train_step_calls, val_step_calls,
                   test_step_calls, pbar_added_metrics, rpc_save_model_count, verdict>>

\* one batch of the validation loop
ValidationStep(r) ==
    /\ pc[r] = "val"
    /\ val_step_calls' = [val_step_calls EXCEPT ![r] = @ + 1]
    /\ LET e == validation_step(cfg.model)
       IN  IF e.kind = "raise"
           THEN /\ error' = [error EXCEPT ![r] = e]
                /\ pc' = [pc EXCEPT ![r] = "after_fit"]
                /\ UNCHANGED batch_idx
           ELSE /\ UNCHANGED error
                /\ IF batch_idx[r] + 1 < limit_val_batches
                   THEN /\ batch_idx' = [batch_idx EXCEPT ![r] = @ + 1]
                        /\ UNCHANGED pc
                   ELSE /\ batch_idx' = [batch_idx EXCEPT ![r] = 0]
                        /\ pc' = [pc EXCEPT ![r] = "save"]
    /\ UNCHANGED <<cfg, training_type_plugin, rpc_initialized, fit_calls,
                   current_epoch, grad, train_step_calls, test_step_calls,
                   pbar_added_metrics, rpc_save_model_count, verdict>>

\* the end of an epoch of the training loop
EndEpoch(r) ==
    /\ pc[r] = "save"
    /\ current_epoch' = [current_epoch EXCEPT ![r] = @ + 1]
    /\ pc' = [pc EXCEPT ![r] = IF current_epoch[r] + 1 < max_epochs THEN "train" ELSE "after_fit"]
    /\ UNCHANGED <<cfg, error, training_type_plugin, rpc_initialized, fit_calls,
                   batch_idx, grad, train_step_calls, val_step_calls, test_step_calls,
                   pbar_added_metrics, rpc_save_model_count, verdict>>

\* plugin.rpc_save_model(...) is called on the process. When and how often the
\* Trainer calls it during fit is decided outside the fragment.
RpcSaveModel(r) ==
    /\ pc[r] \in {"train", "val", "save"}
    /\ training_type_plugin[r] = "CustomRPCPlugin"
    /\ rpc_save_model_count[r] < MaxSaveCalls
    /\ rpc_save_model_count' = [rpc_save_model_count EXCEPT ![r] = rpc_save_model(@)]
    /\ UNCHANGED <<cfg, pc, error, training_type_plugin, rpc_initialized, fit_calls,
                   current_epoch, batch_idx, grad, train_step_calls, val_step_calls,
                   test_step_calls, pbar_added_metrics, verdict>>

\* trainer.test(model) after a fit that returned
TrainerTest(r) ==
    /\ pc[r] = "after_fit"
    /\ error[r] = NoError
    /\ pc' = [pc EXCEPT ![r] = "test"]
    /\ batch_idx' = [batch_idx EXCEPT ![r] = 0]
    /\ UNCHANGED <<cfg, error, training_type_plugin, rpc_initialized, fit_calls,
                   current_epoch, grad, train_step_calls, val_step_calls, test_step_calls,
                   pbar_added_metrics, rpc_save_model_count, verdict>>

\* one batch of the test loop
TestStep(r) ==
    /\ pc[r] = "test"
    /\ test_step_calls' = [test_step_calls EXCEPT ![r] = @ + 1]
    /\ LET e == test_step(cfg.model)
       IN  IF e.kind = "raise"
           THEN /\ error' = [error EXCEPT ![r] = e]
                /\ pc' = [pc EXCEPT ![r] = "after_test"]
                /\ UNCHANGED batch_idx
           ELSE /\ UNCHANGED error
                /\ IF batch_idx[r] + 1 < limit_test_batches
                   THEN /\ batch_idx' = [batch_idx EXCEPT ![r] = @ + 1]
                        /\ UNCHANGED pc
                   ELSE /\ batch_idx' = [batch_idx EXCEPT ![r] = 0]
                        /\ pc' = [pc EXCEPT ![r] = "after_test"]
    /\ UNCHANGED <<cfg, training_type_plugin, rpc_initialized, fit_calls,
                   current_epoch, grad, train_step_calls, val_step_calls,
                   pbar_added_metrics, rpc_save_model_count, verdict>>

\* the rest of the test function: its assertions, then the exit call if it has one.
\* torch_distrib.is_initialized() is answered by the distributed runtime.
AfterFit(r) ==
    /\ pc[r] \in {"after_fit", "after_test"}
    /\ \E is_initialized \in BOOLEAN :
        LET o == test_outcome(cfg, error[r], is_initialized, r, pbar_added_metrics[r],
                              rpc_save_model_count[r])
        IN  IF o = "passed" /\ teardown_calls_exit(cfg, training_type_plugin[r])
            THEN /\ pc' = [pc EXCEPT ![r] = "exit_rpc"]
                 /\ UNCHANGED verdict
            ELSE /\ pc' = [pc EXCEPT ![r] = "terminated"]
                 /\ verdict' = [verdict EXCEPT ![r] = o]
    /\ UNCHANGED <<cfg, error, training_type_plugin, rpc_initialized, fit_calls,
                   current_epoch, batch_idx, grad, train_step_calls, val_step_calls,
                   test_step_calls, pbar_added_metrics, rpc_save_model_count>>

\* trainer.accelerator.training_type_plugin.exit_rpc_process()
ExitRpcProcess(r) ==
    /\ pc[r] = "exit_rpc"
    /\ rpc_initialized' = [rpc_initialized EXCEPT ![r] = exit_rpc_process(@)]
    /\ pc' = [pc EXCEPT ![r] = "terminated"]
    /\ verdict' = [verdict EXCEPT ![r] = "passed"]
    /\ UNCHANGED <<cfg, error, training_type_plugin, fit_calls, current_epoch,
                   batch_idx, grad, train_step_calls, val_step_calls, test_step_calls,
                   pbar_added_metrics, rpc_save_model_count>>

Proc(r) ==
    \/ TrainerFit(r)
    \/ OnFitStart(r)
    \/ PreDispatch(r)
    \/ TrainingStep(r)
    \/ ManualBackward(r)
    \/ StepZeroGrad(r)
    \/ AssertZero(r)
    \/ ValidationStep(r)
    \/ EndEpoch(r)
    \/ RpcSaveModel(r)
    \/ TrainerTest(r)
    \/ TestStep(r)
    \/ AfterFit(r)
    \/ ExitRpcProcess(r)

Next == \E r \in Ranks : Proc(r)

Init == FitInit

Spec == Init /\ [][Next]_vars


(***************************************************************************)
(* The claims.                                                             *)
(***************************************************************************)
BeforeDispatch == {"start", "on_fit_start", "pre_dispatch"}

InFit == {"on_fit_start", "pre_dispatch", "train", "backward_done", "zeroed", "val", "save"}

SequentialRun == cfg.plugins = <<"RPCSequentialPlugin">>

Fixtures == {"SequentialModelRPCManual", "SequentialModelRPCAutomatic"}

\* C3: with the sequential plugin (and no other configuration error), a
\* balance whose sum is the number of layers N lets fit run to its end, and a
\* balance of any other sum ends fit with a MisconfigurationException that
\* carries the sum and N; the tests' balance [2, 1] succeeds against 3 layers
\* and [2, 2] fails with sum 4 and length 3.
C3_BalanceSum ==
    (SequentialRun /\ cfg.precision = 32) =>
        \A r \in Ranks :
            /\ (pc[r] \notin BeforeDispatch /\ SumSeq(cfg.balance) # Len(sequential_module))
                  => error[r] = Raised("MisconfigurationException", BalanceMessage,
                                       SumSeq(cfg.balance), Len(sequential_module))
            /\ (pc[r] = "after_fit" /\ SumSeq(cfg.balance) = Len(sequential_module))
                  => (error[r] = NoError /\ current_epoch[r] = max_epochs)
            /\ (pc[r] = "after_fit" /\ cfg.balance = <<2, 2>>)
                  => (error[r].sum = 4 /\ error[r].length = 3)
            /\ (pc[r] = "after_fit" /\ cfg.balance = <<2, 1>>) => error[r] = NoError

C3_Witness ==
    /\ cfg = test_rpc_sequential_plugin_with_wrong_balance
    /\ pc[0] = "terminated"
    /\ verdict[0] = "passed"
    /\ error[0] = Raised("MisconfigurationException", BalanceMessage, 4, 3)

\* C4: a configuration error (mixed precision with the sequential plugin, or
\* a balance that does not match the layers) leaves fit before any training or
\* validation step has run, reaches the caller of fit, and fit is entered once.
C4_FailFast ==
    \A r \in Ranks :
        /\ fit_calls[r] <= 1
        /\ error[r].type = "MisconfigurationException"
              => /\ train_step_calls[r] = 0
                 /\ val_step_calls[r] = 0
                 /\ current_epoch[r] = 0
                 /\ fit_calls[r] = 1
                 /\ pc[r] \in {"after_fit", "exit_rpc", "terminated"}
        /\ (SequentialRun /\ cfg.precision = 16 /\ pc[r] \notin BeforeDispatch)
              => error[r] = Raised("MisconfigurationException", AmpMessage, 0, 0)
        /\ (SequentialRun /\ SumSeq(cfg.balance) # Len(sequential_module)
                /\ pc[r] \notin BeforeDispatch)
              => error[r].type = "MisconfigurationException"

C4_Witness ==
    /\ cfg = test_rpc_sequential_plugin_manual_amp
    /\ \A r \in Ranks :
        /\ pc[r] = "terminated"
        /\ verdict[r] = "passed"
        /\ error[r] = Raised("MisconfigurationException", AmpMessage, 0, 0)
        /\ train_step_calls[r] = 0

\* C5: with an RPCPlugin in the plugins list, under each of the three backend
\* configurations the training-type plugin is an RPCPlugin when on_fit_start
\* runs, and the RuntimeError raised in the hook is the error that leaves fit.
C5_PluginSelection ==
    (cfg.test = "test_rpc_choice" /\ cfg.plugins = <<"RPCPlugin">>) =>
        \A r \in Ranks :
            /\ pc[r] # "start" => isinstance_RPCPlugin(training_type_plugin[r])
            /\ pc[r] \notin {"start", "on_fit_start"}
                  => /\ error[r] = Raised("RuntimeError", "finished plugin check", 0, 0)
                     /\ pc[r] \in {"after_fit", "terminated"}

C5_Witness ==
    /\ cfg = test_rpc_choice("ddp_spawn")
    /\ pc[0] = "terminated"
    /\ verdict[0] = "passed"
    /\ pc[1] = "on_fit_start"
    /\ training_type_plugin[1] = "RPCPlugin"

\* C10: fit calls training_step and validation_step only: no test_step has
\* run while fit runs or when it returns, and fit never ends with the
\* TypeError of test_step; a test_step of the fixtures, once called, raises it.
C10_FitNeverTests ==
    \A r \in Ranks :
        /\ pc[r] \in InFit \cup {"start", "after_fit"} => test_step_calls[r] = 0
        /\ pc[r] \in InFit \cup {"after_fit"} => error[r].type # "TypeError"
        /\ (cfg.model \in Fixtures /\ test_step_calls[r] > 0)
              => (pc[r] \in {"after_test", "terminated"} /\ error[r].type = "TypeError")

C10_Witness ==
    /\ cfg.model \in Fixtures
    /\ pc[0] = "after_fit"
    /\ error[0] = NoError
    /\ val_step_calls[0] = max_epochs * limit_val_batches
    /\ test_step_calls[0] = 0
    /\ pc[1] = "after_test"
    /\ test_step_calls[1] = 1
    /\ error[1].type = "TypeError"

====
